---------------------------- MODULE Spec2Model ----------------------------
(***************************************************************************)
(* Timetable generator (src/app.py): the automatic slot assignment         *)
(* auto_assign_timeslots with its two conflict predicates, the row         *)
(* validator validate_timetable_row and the manual conflict sweep of       *)
(* create_timetable_page.                                                  *)
(*                                                                         *)
(* Texts.  A clock text "HH:MM" is the record [hh, mm] of its two digit    *)
(* strings, each a sequence of decimal digits ("10:00" is                  *)
(* [hh |-> <<1,0>>, mm |-> <<0,0>>]); a time text "<Day> HH:MM" adds the   *)
(* day word.  Formatting (Fmt2) and parsing (ToInt) are computed on the    *)
(* digits.  The string keys f"{room}_{day}_{time}" are tuples.             *)
(***************************************************************************)
EXTENDS Integers, Sequences, FiniteSets, TLC

VARIABLES
    \* ---- auto_assign_timeslots: arguments
    faculty_assignments,     \* list of requests
    dept_rooms,              \* list of room names (the "Room Name" column)
    timetables_df,           \* persisted history rows (already validated)
    avoid_friday_afternoon,
    \* ---- auto_assign_timeslots: locals
    pc,                      \* position in the function
    schedule,
    used_slots,              \* keys <<room, day, time>>
    faculty_slots,           \* keys <<faculty, day, time>>
    room_usage,
    day_usage,
    capacity_warning,        \* the st.warning of line 381 was emitted
    warnings,                \* the other st.warning calls, as records
    a_idx,                   \* index of the current assignment (1-based)
    selected_days,
    class_idx,
    classes_assigned,
    attempt,                 \* passes of `for _ in range(max_attempts)` made
    day,
    \* ---- validate_timetable_row
    row,                     \* the row dict, field name -> value
    assign_missing_id,       \* the flag of the latest call
    v_result,                \* the pair returned by the latest call
    v_calls,                 \* calls made on this row
    uuids,                   \* uuid4 values drawn so far
    \* ---- the conflict sweep of create_timetable_page
    m_schedule,              \* the schedule the sweep runs on
    m_pc,
    room_conflicts,
    faculty_conflicts,
    faculty_gap_issues,
    has_errors,
    form_error,              \* an st.error was shown while the form built the schedule
    \* ---- save_timetable
    s_sheet,                 \* the sheet argument is set
    s_schedule,              \* timetable_data["schedule"]
    s_department,            \* department_id
    s_pc,                    \* position in the function
    s_attempt,               \* the loop variable attempt
    s_waits,                 \* the waits slept so far (time.sleep)
    s_error,                 \* what the latest attempt raised
    s_appended               \* the batches appended to the Timetables worksheet

autoVars == <<faculty_assignments, dept_rooms, timetables_df,
              avoid_friday_afternoon, pc, schedule, used_slots, faculty_slots,
              room_usage, day_usage, capacity_warning, warnings, a_idx,
              selected_days, class_idx, classes_assigned, attempt, day>>

validateVars == <<row, assign_missing_id, v_result, v_calls, uuids>>

sweepVars == <<m_schedule, m_pc, room_conflicts, faculty_conflicts,
               faculty_gap_issues, has_errors, form_error>>

saveVars == <<s_sheet, s_schedule, s_department, s_pc, s_attempt, s_waits,
              s_error, s_appended>>

vars == <<autoVars, validateVars, sweepVars, saveVars>>

-----------------------------------------------------------------------------
(* Bounds of the model *)

\* max_attempts argument of auto_assign_timeslots (the default is 20)
MaxAttempts == 2
\* validate_timetable_row is called on one row at most this many times
MaxCalls == 2
\* the requests have a duration of 1..MaxTenure hours (the form of
\* create_timetable_page offers 1 to 3)
MaxTenure == 3

(* Program constants *)

ClosingHour == 18
LunchHour == 13

NoRoom == "None"
NoDay == "None"

-----------------------------------------------------------------------------
(* Texts *)

\* f"{n:02d}" and strftime('%H'): two decimal digits
Fmt2(n) == <<(n \div 10) % 10, n % 10>>

\* int(text) of a digit string
RECURSIVE ToInt(_)
ToInt(ds) == IF ds = <<>> THEN 0
             ELSE 10 * ToInt(SubSeq(ds, 1, Len(ds) - 1)) + ds[Len(ds)]

\* the clock text f"{h:02d}:00"
Clock(h) == [hh |-> Fmt2(h), mm |-> <<0, 0>>]

\* f"{day} {time}"
TimeText(d, t) == [day |-> d, hh |-> t.hh, mm |-> t.mm]

\* text.split(" ")[1].split(":")[0] converted by int()
HourOf(text) == ToInt(text.hh)

\* Python's str >= on two clock texts: lexicographic on the characters
\* (the ':' is at the same place in both)
RECURSIVE SeqGE(_, _)
SeqGE(a, b) ==
    IF b = <<>> THEN TRUE
    ELSE IF a = <<>> THEN FALSE
    ELSE IF a[1] # b[1] THEN a[1] > b[1]
    ELSE SeqGE(Tail(a), Tail(b))

ClockGE(a, b) == SeqGE(a.hh \o a.mm, b.hh \o b.mm)

\* (datetime.strptime(time, '%H:%M') + timedelta(hours=tenure)).strftime('%H:%M')
AddHours(t, tenure) ==
    [hh |-> Fmt2((ToInt(t.hh) + tenure) % 24), mm |-> t.mm]

-----------------------------------------------------------------------------
(* Calendar *)

days == <<"Monday", "Tuesday", "Wednesday", "Thursday", "Friday">>

all_time_slots ==
    <<Clock(10), Clock(11), Clock(12), Clock(14), Clock(15), Clock(16), Clock(17)>>

Range(s) == {s[i] : i \in DOMAIN s}

\* time_slots after the avoid_friday_afternoon filter of line 371
TimeSlots(avoid) ==
    IF avoid
    THEN LET keep(t) == ~(ClockGE(t, Clock(15)) /\ "Friday" \in Range(days))
         IN  SelectSeq(all_time_slots, keep)
    ELSE all_time_slots

\* available_days of lines 393-395
AvailableDays(avoid) ==
    IF avoid
    THEN LET keep(d) == d # "Friday"
                        \/ ~(\E t \in Range(TimeSlots(avoid)) : ClockGE(t, Clock(15)))
         IN  SelectSeq(days, keep)
    ELSE days

-----------------------------------------------------------------------------
(* Conflict predicates *)

\* the test of line 411 without its second clause: only the closing hour
\* is looked at
ExceedsOnly(start_hour, tenure) ==
    start_hour + tenure > ClosingHour

\* the test of lines 411 and 798: the class would end after 18:00 or cross
\* the lunch hour
ExceedsOrCrossesLunch(start_hour, tenure) ==
    \/ start_hour + tenure > ClosingHour
    \/ (start_hour + tenure > LunchHour /\ start_hour < LunchHour)

\* check_faculty_gap: TRUE when the candidate keeps the 1-hour gap
check_faculty_gap(sched, faculty_id, d, start_time, tenure) ==
    IF tenure >= 2 THEN TRUE
    ELSE
      LET start_hour == HourOf(start_time)
          has_prev   == start_hour > 10
          prev_hour  == TimeText(d, Clock(start_hour - 1))
          has_next   == start_hour + tenure < 17
          next_hour  == TimeText(d, Clock(start_hour + tenure))
          bad(slot)  ==
              LET slot_start_hour == HourOf(slot.start_time)
                  slot_tenure     == HourOf(slot.end_time) - slot_start_hour
              IN  \/ (has_prev /\ slot.start_time = prev_hour)
                  \/ (has_next /\ slot.start_time = next_hour)
                  \/ /\ slot_tenure > 1
                     /\ \E h \in slot_start_hour .. (slot_start_hour + slot_tenure - 1) :
                            h = start_hour \/ h = start_hour + tenure
      IN  ~ \E i \in DOMAIN sched :
                /\ sched[i].faculty_id = faculty_id
                /\ sched[i].day = d
                /\ bad(sched[i])

\* check_faculty_schedule_conflict comparing the start hours only, the way
\* the keys of faculty_slots do
history_same_start_only(df, faculty_id, start_time, tenure) ==
    ~ \E r \in df :
          /\ r.faculty_id = faculty_id
          /\ r.start_time.day = start_time.day
          /\ HourOf(r.start_time) = HourOf(start_time)

\* check_faculty_schedule_conflict: TRUE when the faculty is free in the
\* persisted history (the first component of the returned pair)
check_faculty_schedule_conflict(df, faculty_id, start_time, tenure) ==
    IF df = {} THEN TRUE
    ELSE
      LET start_day  == start_time.day
          start_hour == HourOf(start_time)
          end_hour   == start_hour + tenure
      IN  ~ \E r \in df :
                /\ r.faculty_id = faculty_id
                /\ r.start_time.day = start_day
                /\ start_hour < HourOf(r.end_time)
                /\ end_hour > HourOf(r.start_time)

-----------------------------------------------------------------------------
(* auto_assign_timeslots *)

\* the injective sequences of length n over the elements of list s:
\* random.sample(s, n)
Samples(s, n) ==
    {q \in [1..n -> Range(s)] : \A i, j \in 1..n : i # j => q[i] # q[j]}

\* selected_days drawn by random.choices instead of random.sample: a day
\* may come twice
SelectedDaysWithRepeats(available_days, num_classes) ==
    [1..num_classes -> Range(available_days)]

\* selected_days of lines 396-400
SelectedDays(available_days, num_classes) ==
    IF Len(available_days) < num_classes
    THEN {p \o c : p \in Samples(available_days, Len(available_days)),
                   c \in [1..(num_classes - Len(available_days)) -> Range(available_days)]}
    ELSE Samples(available_days, num_classes)

RECURSIVE SumClasses(_)
SumClasses(fa) ==
    IF fa = <<>> THEN 0 ELSE Head(fa).num_classes + SumClasses(Tail(fa))

MaxTenureOf(fa) ==
    CHOOSE m \in {fa[i].tenure : i \in DOMAIN fa} :
        \A i \in DOMAIN fa : fa[i].tenure <= m

\* len(days) * len(time_slots) * len(dept_rooms)
MaxSlots(avoid, rooms) == Len(days) * Len(TimeSlots(avoid)) * Len(rooms)

\* the condition of line 380 (evaluated on a non-empty request list)
InsufficientCapacity(fa, avoid, rooms) ==
    SumClasses(fa) * MaxTenureOf(fa) > MaxSlots(avoid, rooms)

\* position of room r in the list of rooms
RoomIndex(rooms, r) == CHOOSE i \in DOMAIN rooms : rooms[i] = r

\* PickRoom without the sort of line 435: the first room of the list whose
\* key is not in used_slots
PickRoomUnsorted(pre_assigned_room, rooms, usage, used, d, t) ==
    IF pre_assigned_room # NoRoom THEN pre_assigned_room
    ELSE
      LET free == {i \in DOMAIN rooms : <<rooms[i], d, t>> \notin used}
      IN  IF free = {} THEN NoRoom
          ELSE rooms[CHOOSE i \in free : \A j \in free : i <= j]

\* lines 433-441: the pre-assigned room, else the first room, in the order
\* of the stable sort by usage, whose key is not in used_slots; NoRoom if none
PickRoom(pre_assigned_room, rooms, usage, used, d, t) ==
    IF pre_assigned_room # NoRoom THEN pre_assigned_room
    ELSE
      LET free == {r \in Range(rooms) : <<r, d, t>> \notin used}
          before(r, q) == \/ usage[r] < usage[q]
                          \/ (usage[r] = usage[q]
                              /\ RoomIndex(rooms, r) <= RoomIndex(rooms, q))
      IN  IF free = {} THEN NoRoom
          ELSE CHOOSE r \in free : \A q \in free : before(r, q)

\* why the candidate start time t on day d is refused before a room is
\* looked for (lines 410-431), or "ok"
TimeCheck(sched, fslots, df, faculty_id, tenure, d, t) ==
    LET start_hour == ToInt(t.hh)
        start_time == TimeText(d, t)
    IN  IF ExceedsOrCrossesLunch(start_hour, tenure) THEN "bounds"
        ELSE IF <<faculty_id, d, t>> \in fslots THEN "faculty_slot"
        ELSE IF ~check_faculty_schedule_conflict(df, faculty_id, start_time, tenure)
             THEN "history"
        ELSE IF tenure = 1 /\ ~check_faculty_gap(sched, faculty_id, d, start_time, tenure)
             THEN "gap"
        ELSE "ok"

\* the slot appended at lines 452-461
NewSlot(d, t, faculty_id, subject_id, room, tenure) ==
    [day |-> d,
     start_time |-> TimeText(d, t),
     end_time |-> TimeText(d, AddHours(t, tenure)),
     faculty_id |-> faculty_id,
     subject_id |-> subject_id,
     room |-> room,
     tenure |-> tenure]

Assignment == faculty_assignments[a_idx]

\* days whose load for the faculty is minimal (line 473)
LeastLoadedDays(usage, faculty_id) ==
    {d \in Range(days) :
        \A e \in Range(days) : usage[faculty_id][d] <= usage[faculty_id][e]}

\* the unchanged arguments of auto_assign_timeslots
argVars == <<faculty_assignments, dept_rooms, timetables_df,
             avoid_friday_afternoon>>

\* FinishAssignment with the test of line 486 as
\* `classes_assigned <= num_classes`: the warning is given for every request
FinishAssignmentAlwaysWarns(n) ==
    /\ warnings' =
         IF n <= Assignment.num_classes
         THEN warnings \cup {[kind |-> "unscheduled", idx |-> a_idx,
                              subject_id |-> Assignment.subject_id,
                              faculty_id |-> Assignment.faculty_id,
                              missing |-> Assignment.num_classes - n]}
         ELSE warnings
    /\ a_idx' = a_idx + 1
    /\ selected_days' = <<>>
    /\ class_idx' = 0
    /\ classes_assigned' = 0
    /\ attempt' = 0
    /\ day' = NoDay
    /\ pc' = IF a_idx + 1 > Len(faculty_assignments) THEN "done" ELSE "assignment"

\* lines 486-489 and the head of the next iteration of line 383: the
\* current assignment is over with n classes assigned; the function returns
\* after the last one.  Locals that are dead from here on are cleared.
FinishAssignment(n) ==
    /\ warnings' =
         IF n < Assignment.num_classes
         THEN warnings \cup {[kind |-> "unscheduled", idx |-> a_idx,
                              subject_id |-> Assignment.subject_id,
                              faculty_id |-> Assignment.faculty_id,
                              missing |-> Assignment.num_classes - n]}
         ELSE warnings
    /\ a_idx' = a_idx + 1
    /\ selected_days' = <<>>
    /\ class_idx' = 0
    /\ classes_assigned' = 0
    /\ attempt' = 0
    /\ day' = NoDay
    /\ pc' = IF a_idx + 1 > Len(faculty_assignments) THEN "done" ELSE "assignment"

\* line 380 on an empty request list: max() of an empty sequence raises
\* ValueError
EmptyRequests ==
    /\ pc = "start"
    /\ faculty_assignments = <<>>
    /\ pc' = "raised"
    /\ UNCHANGED <<validateVars, sweepVars, saveVars>>
    /\ UNCHANGED <<argVars, schedule, used_slots, faculty_slots,
                   room_usage, day_usage, capacity_warning, warnings, a_idx,
                   selected_days, class_idx, classes_assigned, attempt, day>>

\* lines 378-381
CheckCapacity ==
    /\ pc = "start"
    /\ faculty_assignments # <<>>
    /\ capacity_warning' = InsufficientCapacity(faculty_assignments,
                               avoid_friday_afternoon, dept_rooms)
    /\ a_idx' = 1
    /\ pc' = "assignment"
    /\ UNCHANGED <<validateVars, sweepVars, saveVars>>
    /\ UNCHANGED <<argVars, schedule, used_slots, faculty_slots,
                   room_usage, day_usage, warnings,
                   selected_days, class_idx, classes_assigned, attempt, day>>

\* lines 383-403: the next assignment, its days drawn at random
BeginAssignment ==
    /\ pc = "assignment"
    /\ a_idx <= Len(faculty_assignments)
    /\ LET available_days == AvailableDays(avoid_friday_afternoon)
           num_classes == Assignment.num_classes
       IN  /\ \E sd \in SelectedDays(available_days, num_classes) :
                  /\ selected_days' = sd
                  /\ day' = sd[1]
           /\ warnings' =
                IF Len(available_days) < num_classes
                THEN warnings \cup {[kind |-> "days", idx |-> a_idx,
                                     subject_id |-> Assignment.subject_id,
                                     faculty_id |-> Assignment.faculty_id,
                                     missing |-> num_classes - Len(available_days)]}
                ELSE warnings
    /\ class_idx' = 0
    /\ classes_assigned' = 0
    /\ attempt' = 0
    /\ pc' = "attempt"
    /\ UNCHANGED <<validateVars, sweepVars, saveVars>>
    /\ UNCHANGED <<argVars, schedule, used_slots, faculty_slots,
                   room_usage, day_usage, capacity_warning, a_idx>>

\* the room of lines 433-441 for start time t on the current day
RoomFor(t) ==
    PickRoom(Assignment.room, dept_rooms, room_usage, used_slots, day, t)

\* Accepts without the test of lines 447-449: a room booked at the start
\* time is taken again
AcceptsBookedRoom(t) ==
    /\ TimeCheck(schedule, faculty_slots, timetables_df, Assignment.faculty_id,
                 Assignment.tenure, day, t) = "ok"
    /\ RoomFor(t) # NoRoom

\* lines 409-450: does the candidate t pass every check
Accepts(t) ==
    /\ TimeCheck(schedule, faculty_slots, timetables_df, Assignment.faculty_id,
                 Assignment.tenure, day, t) = "ok"
    /\ RoomFor(t) # NoRoom
    /\ <<RoomFor(t), day, t>> \notin used_slots

\* One pass of lines 404-470 over shuffled_times = random.sample(time_slots):
\* a refused start time changes nothing but the list of failure texts, so
\* the pass appends the slot of the accepted start time that comes first in
\* the shuffled order, which can be any accepted one.

\* lines 452-470 and 480-481: the slot is appended, and the next class (or
\* the next assignment) is up
CommitSlot ==
    /\ pc = "attempt"
    /\ attempt < MaxAttempts
    /\ classes_assigned < Assignment.num_classes
    /\ \E t \in Range(TimeSlots(avoid_friday_afternoon)) :
           /\ Accepts(t)
           /\ RoomFor(t) \in DOMAIN room_usage
           /\ schedule' = Append(schedule,
                 NewSlot(day, t, Assignment.faculty_id, Assignment.subject_id,
                         RoomFor(t), Assignment.tenure))
           /\ used_slots' = used_slots \cup {<<RoomFor(t), day, t>>}
           /\ faculty_slots' = faculty_slots \cup {<<Assignment.faculty_id, day, t>>}
           /\ room_usage' = [room_usage EXCEPT ![RoomFor(t)] = @ + Assignment.tenure]
           /\ day_usage' = [day_usage EXCEPT ![Assignment.faculty_id][day] = @ + 1]
    /\ IF class_idx + 1 < Assignment.num_classes
       THEN /\ class_idx' = class_idx + 1
            /\ classes_assigned' = classes_assigned + 1
            /\ day' = selected_days[class_idx + 2]
            /\ attempt' = 0
            /\ pc' = "attempt"
            /\ UNCHANGED <<warnings, a_idx, selected_days>>
       ELSE FinishAssignment(classes_assigned + 1)
    /\ UNCHANGED <<validateVars, sweepVars, saveVars>>
    /\ UNCHANGED <<argVars, capacity_warning>>

\* lines 452-464 with a pre-assigned room that is no key of room_usage:
\* the slot is appended and `room_usage[room] += tenure` raises KeyError
CommitKeyError ==
    /\ pc = "attempt"
    /\ attempt < MaxAttempts
    /\ classes_assigned < Assignment.num_classes
    /\ \E t \in Range(TimeSlots(avoid_friday_afternoon)) :
           /\ Accepts(t)
           /\ RoomFor(t) \notin DOMAIN room_usage
           /\ schedule' = Append(schedule,
                 NewSlot(day, t, Assignment.faculty_id, Assignment.subject_id,
                         RoomFor(t), Assignment.tenure))
           /\ used_slots' = used_slots \cup {<<RoomFor(t), day, t>>}
           /\ faculty_slots' = faculty_slots \cup {<<Assignment.faculty_id, day, t>>}
    /\ pc' = "raised"
    /\ UNCHANGED <<validateVars, sweepVars, saveVars>>
    /\ UNCHANGED <<argVars, room_usage, day_usage,
                   capacity_warning, warnings, a_idx, selected_days, class_idx,
                   classes_assigned, attempt, day>>

\* FailPass for a loop `while classes_assigned <= class_idx` in the place of
\* `for _ in range(max_attempts)`: the passes are not counted
FailPassUncounted ==
    /\ pc = "attempt"
    /\ classes_assigned < Assignment.num_classes
    /\ \A t \in Range(TimeSlots(avoid_friday_afternoon)) : ~Accepts(t)
    /\ day' \in LeastLoadedDays(day_usage, Assignment.faculty_id)
    /\ UNCHANGED <<validateVars, sweepVars, saveVars>>
    /\ UNCHANGED <<argVars, pc, schedule, used_slots, faculty_slots,
                   room_usage, day_usage, capacity_warning, warnings, a_idx,
                   selected_days, class_idx, classes_assigned, attempt>>

\* lines 409-450 and 471-478: every start time of the pass is refused;
\* another day is drawn among the least loaded days of the faculty
FailPass ==
    /\ pc = "attempt"
    /\ attempt < MaxAttempts
    /\ classes_assigned < Assignment.num_classes
    /\ \A t \in Range(TimeSlots(avoid_friday_afternoon)) : ~Accepts(t)
    /\ day' \in LeastLoadedDays(day_usage, Assignment.faculty_id)
    /\ attempt' = attempt + 1
    /\ UNCHANGED <<validateVars, sweepVars, saveVars>>
    /\ UNCHANGED <<argVars, pc, schedule, used_slots, faculty_slots,
                   room_usage, day_usage, capacity_warning, warnings, a_idx,
                   selected_days, class_idx, classes_assigned>>

\* lines 404 and 480-487: the attempts are used up and the class is not
\* assigned: the class loop is left (break) and the assignment is over
GiveUpClass ==
    /\ pc = "attempt"
    /\ attempt >= MaxAttempts
    /\ FinishAssignment(classes_assigned)
    /\ UNCHANGED <<validateVars, sweepVars, saveVars>>
    /\ UNCHANGED <<argVars, schedule, used_slots, faculty_slots,
                   room_usage, day_usage, capacity_warning>>

-----------------------------------------------------------------------------
(* validate_timetable_row *)

\* Values of a row.  A value is absent (the key is missing, or None), a
\* number (get_all_records turns numeric cells into numbers) or a text.
\* An identifier is [kind, text]; a time is [kind, day, hh, mm], the text
\* f"{day} {hh}:{mm}" when its kind is "text".
NoValue == [kind |-> "none", text |-> ""]
Text(str) == [kind |-> "text", text |-> str]
Number(digits) == [kind |-> "number", text |-> digits]

NoTime == [kind |-> "none", day |-> "", hh |-> <<>>, mm |-> <<>>]
EmptyTime == [kind |-> "text", day |-> "", hh |-> <<>>, mm |-> <<>>]
\* a numeric cell, e.g. 10
NumberTime(ds) == [kind |-> "number", day |-> "", hh |-> ds, mm |-> <<>>]
TimeValue(d, hh, mm) == [kind |-> "text", day |-> d, hh |-> hh, mm |-> mm]

\* Python truth value of a row value: `not row.get(col)` is its negation
Truthy(v) ==
    CASE v.kind = "none"   -> FALSE
      [] v.kind = "number" -> v.text # "0"
      [] OTHER             -> v.text # ""

TruthyTime(v) ==
    CASE v.kind = "none"   -> FALSE
      [] v.kind = "number" -> ToInt(v.hh) # 0
      [] OTHER             -> v # EmptyTime

\* re.match(time_pattern, text) for a text value: a weekday word, a blank,
\* two digits, a colon, two digits
MatchesTimePattern(v) ==
    /\ v.day \in Range(days)
    /\ Len(v.hh) = 2
    /\ Len(v.mm) = 2

valid_times == Range(all_time_slots)

\* required_fields of line 85, in order
required_fields == <<"Department ID", "Subject ID", "Start Time", "End Time">>

FieldTruthy(r, col) ==
    IF col \in {"Start Time", "End Time"} THEN TruthyTime(r[col]) ELSE Truthy(r[col])

Reason(msg) == [msg |-> msg, fields |-> <<>>]

\* the test of line 103 without its last clause `tenure > 3`
OutOfRangeNoMaximum(r) ==
    LET start_time == [hh |-> r["Start Time"].hh, mm |-> r["Start Time"].mm]
        start_hour == ToInt(r["Start Time"].hh)
        end_hour   == ToInt(r["End Time"].hh)
        tenure     == end_hour - start_hour
    IN  \/ start_time \notin valid_times
        \/ tenure <= 0
        \/ end_hour > 18

\* lines 99-104 on a row that passed the format and the same-day checks
OutOfRange(r) ==
    LET start_time == [hh |-> r["Start Time"].hh, mm |-> r["Start Time"].mm]
        start_hour == ToInt(r["Start Time"].hh)
        end_hour   == ToInt(r["End Time"].hh)
        tenure     == end_hour - start_hour
    IN  \/ start_time \notin valid_times
        \/ tenure <= 0
        \/ end_hour > 18
        \/ tenure > 3

\* lines 84-104: the pair returned by the checks that come before the
\* identifier is looked at; ok when the row passes all of them
RowChecks(r) ==
    LET is_missing(col) == ~FieldTruthy(r, col)
        missing_fields == SelectSeq(required_fields, is_missing)
        start == r["Start Time"]
        end   == r["End Time"]
    IN  IF missing_fields # <<>>
        THEN [ok |-> FALSE,
              reason |-> [msg |-> "Missing required fields", fields |-> missing_fields]]
        ELSE IF start.kind # "text"
        \* re.match on a value that is no string raises TypeError, caught at
        \* line 111
        THEN [ok |-> FALSE, reason |-> Reason("Validation error")]
        ELSE IF ~MatchesTimePattern(start)
        THEN [ok |-> FALSE, reason |-> Reason("Invalid time format")]
        ELSE IF end.kind # "text"
        THEN [ok |-> FALSE, reason |-> Reason("Validation error")]
        ELSE IF ~MatchesTimePattern(end)
        THEN [ok |-> FALSE, reason |-> Reason("Invalid time format")]
        ELSE IF start.day # end.day
        THEN [ok |-> FALSE,
              reason |-> Reason("Start and end times must be on the same day")]
        ELSE IF OutOfRange(r)
        THEN [ok |-> FALSE, reason |-> Reason("Invalid or out-of-range time")]
        ELSE [ok |-> TRUE, reason |-> Reason("")]

\* validate_timetable_row with the test of line 106 reduced to
\* `if assign_missing_id`: an identifier is synthesized even when the row
\* has one
validate_assigning_anew(r, assign, id) ==
    LET checks == RowChecks(r)
    IN  IF checks.ok /\ assign
        THEN [ok |-> TRUE, reason |-> Reason(""),
              row |-> [r EXCEPT !["Timetable ID"] = id]]
        ELSE [ok |-> checks.ok, reason |-> checks.reason, row |-> r]

\* lines 84-112: the returned pair and the row as the call leaves it; id
\* is the value str(uuid.uuid4()) would give
validate_timetable_row(r, assign, id) ==
    LET checks == RowChecks(r)
    IN  IF checks.ok /\ assign /\ ~Truthy(r["Timetable ID"])
        THEN [ok |-> TRUE, reason |-> Reason(""),
              row |-> [r EXCEPT !["Timetable ID"] = id]]
        ELSE [ok |-> checks.ok, reason |-> checks.reason, row |-> r]

Uuid(n) == Text(IF n = 0 THEN "uuid-a" ELSE IF n = 1 THEN "uuid-b"
                ELSE IF n = 2 THEN "uuid-c" ELSE "uuid-d")

NoResult == [ok |-> FALSE, reason |-> Reason("not called")]

\* one call validate_timetable_row(row, assign)
Validate ==
    /\ v_calls < MaxCalls
    /\ \E assign \in BOOLEAN :
         LET res == validate_timetable_row(row, assign, Uuid(uuids))
         IN  /\ assign_missing_id' = assign
             /\ v_result' = [ok |-> res.ok, reason |-> res.reason]
             /\ row' = res.row
             /\ uuids' = IF res.row # row THEN uuids + 1 ELSE uuids
    /\ v_calls' = v_calls + 1
    /\ UNCHANGED <<autoVars, sweepVars, saveVars>>

-----------------------------------------------------------------------------
(* The conflict sweep of manual mode: create_timetable_page, lines 840-875 *)

\* lines 846-850: the texts f"{room} at {start_time}" of the pairs of
\* distinct slots with the same start time and the same room
RoomConflicts(sched) ==
    {[room |-> sched[i].room, start_time |-> sched[i].start_time] :
        i \in {k \in DOMAIN sched :
                 \E j \in DOMAIN sched :
                     /\ k # j
                     /\ sched[k].start_time = sched[j].start_time
                     /\ sched[k].room = sched[j].room}}

\* lines 846-852: the texts f"{faculty_id} at {start_time}"
FacultyConflicts(sched) ==
    {[faculty_id |-> sched[i].faculty_id, start_time |-> sched[i].start_time] :
        i \in {k \in DOMAIN sched :
                 \E j \in DOMAIN sched :
                     /\ k # j
                     /\ sched[k].start_time = sched[j].start_time
                     /\ sched[k].faculty_id = sched[j].faculty_id}}

\* lines 854-860: the texts
\* f"{faculty_id} on {day} at {time_i}:00 and {time_j}:00", one for every
\* ordered pair (i, j) of 1-hour slots of a faculty on a day whose start
\* hours differ by 1
FacultyGapIssues(sched) ==
    {[faculty_id |-> sched[p[1]].faculty_id, day |-> sched[p[1]].day,
      time_i |-> HourOf(sched[p[1]].start_time),
      time_j |-> HourOf(sched[p[2]].start_time)] :
        p \in {q \in (DOMAIN sched) \X (DOMAIN sched) :
                 /\ q[1] # q[2]
                 /\ sched[q[1]].faculty_id = sched[q[2]].faculty_id
                 /\ sched[q[1]].day = sched[q[2]].day
                 /\ sched[q[1]].tenure = 1
                 /\ sched[q[2]].tenure = 1
                 /\ LET time_i == HourOf(sched[q[1]].start_time)
                        time_j == HourOf(sched[q[2]].start_time)
                    IN  time_i - time_j = 1 \/ time_j - time_i = 1}}

\* lines 840-875 on the submitted schedule
Sweep ==
    /\ m_pc = "submitted"
    /\ room_conflicts' = RoomConflicts(m_schedule)
    /\ faculty_conflicts' = FacultyConflicts(m_schedule)
    /\ faculty_gap_issues' = FacultyGapIssues(m_schedule)
    /\ has_errors' = (\/ RoomConflicts(m_schedule) # {}
                      \/ FacultyConflicts(m_schedule) # {}
                      \/ FacultyGapIssues(m_schedule) # {})
    /\ m_pc' = "swept"
    /\ UNCHANGED <<m_schedule, form_error, autoVars, validateVars, saveVars>>

-----------------------------------------------------------------------------
(* Inputs of auto_assign_timeslots *)

Faculties == {"F1", "F2"}
RoomLists == {<<>>, <<"R1">>, <<"R1", "R2">>}
\* the pre-assigned room of a request: none, or R1 (which is no room of the
\* empty room list)
PreAssigned == {NoRoom, "R1"}
ClassCounts == {1, 2}

SubjectName(i) == IF i = 1 THEN "S1" ELSE "S2"

Requests ==
    [faculty_id : Faculties, subject_id : {"S1", "S2"},
     num_classes : ClassCounts, tenure : 1..MaxTenure, room : PreAssigned]

\* the request lists: none, one or two requests, asking for ClassCounts
\* classes in all; the i-th request is for subject S<i> and the first one
\* for faculty F1
RequestLists ==
    {<<>>} \cup
    UNION {
      {fa \in [1..n -> Requests] :
          /\ \A i \in 1..n : fa[i].subject_id = SubjectName(i)
          /\ fa[1].faculty_id = "F1"
          /\ SumClasses(fa) \in ClassCounts}
      : n \in {1, 2}}

HistoryRow(f, r, d, h, tenure) ==
    [faculty_id |-> f, room |-> r,
     start_time |-> TimeText(d, Clock(h)),
     end_time |-> TimeText(d, Clock(h + tenure))]

Histories ==
    {{}, {HistoryRow("F2", "R1", "Monday", 10, 2)},
     {HistoryRow("F2", "R1", "Monday", 15, 2)}}

\* the variables of the parts that a specification leaves alone
IdleAuto ==
    /\ faculty_assignments = <<>>
    /\ dept_rooms = <<>>
    /\ timetables_df = {}
    /\ avoid_friday_afternoon = FALSE
    /\ pc = "idle"
    /\ schedule = <<>>
    /\ used_slots = {}
    /\ faculty_slots = {}
    /\ room_usage = <<>>
    /\ day_usage = <<>>
    /\ capacity_warning = FALSE
    /\ warnings = {}
    /\ a_idx = 0
    /\ selected_days = <<>>
    /\ class_idx = 0
    /\ classes_assigned = 0
    /\ attempt = 0
    /\ day = NoDay

IdleValidate ==
    /\ row = <<>>
    /\ assign_missing_id = FALSE
    /\ v_result = NoResult
    /\ v_calls = MaxCalls
    /\ uuids = 0

IdleSweep ==
    /\ m_schedule = <<>>
    /\ m_pc = "idle"
    /\ room_conflicts = {}
    /\ faculty_conflicts = {}
    /\ faculty_gap_issues = {}
    /\ has_errors = FALSE
    /\ form_error = FALSE

IdleSave ==
    /\ s_sheet = FALSE
    /\ s_schedule = <<>>
    /\ s_department = ""
    /\ s_pc = "idle"
    /\ s_attempt = 0
    /\ s_waits = <<>>
    /\ s_error = "none"
    /\ s_appended = <<>>

\* the state of auto_assign_timeslots at line 377, called with the given
\* arguments
AutoCalled(fa, rooms, df, avoid) ==
    /\ faculty_assignments = fa
    /\ dept_rooms = rooms
    /\ timetables_df = df
    /\ avoid_friday_afternoon = avoid
    /\ pc = "start"
    /\ schedule = <<>>
    /\ used_slots = {}
    /\ faculty_slots = {}
    /\ room_usage = [r \in Range(rooms) |-> 0]
    /\ day_usage = [f \in {fa[i].faculty_id : i \in DOMAIN fa}
                        |-> [d \in Range(days) |-> 0]]
    /\ capacity_warning = FALSE
    /\ warnings = {}
    /\ a_idx = 0
    /\ selected_days = <<>>
    /\ class_idx = 0
    /\ classes_assigned = 0
    /\ attempt = 0
    /\ day = NoDay

InitAuto ==
    /\ \E fa \in RequestLists, rooms \in RoomLists, df \in Histories,
          avoid \in BOOLEAN : AutoCalled(fa, rooms, df, avoid)
    /\ IdleValidate
    /\ IdleSave
    /\ IdleSweep

NextAuto ==
    \/ EmptyRequests
    \/ CheckCapacity
    \/ BeginAssignment
    \/ CommitSlot
    \/ CommitKeyError
    \/ FailPass
    \/ GiveUpClass

Init == InitAuto

Next == NextAuto

\* auto_assign_timeslots on the inputs of InitAuto
Spec == Init /\ [][Next]_vars

\* Inputs whose class-hours are compared with the capacity of the grid, with
\* avoid_friday_afternoon set: one request for seven 3-hour classes, or for
\* one class in the pre-assigned room R1, or no request; no room or the
\* room R1
Request(f, s, n, t, r) ==
    [faculty_id |-> f, subject_id |-> s, num_classes |-> n, tenure |-> t,
     room |-> r]

CapacityRequestLists ==
    {<<>>,
     <<Request("F1", "S1", 7, 3, NoRoom)>>,
     <<Request("F1", "S1", 1, 3, "R1")>>}

InitCapacity ==
    /\ \E fa \in CapacityRequestLists, rooms \in {<<>>, <<"R1">>} :
          AutoCalled(fa, rooms, {}, TRUE)
    /\ IdleValidate
    /\ IdleSave
    /\ IdleSweep

\* auto_assign_timeslots on the inputs of InitCapacity
SpecCapacity == InitCapacity /\ [][Next]_vars

\* auto_assign_timeslots run to its end on the lists of at most one
\* request: the function is sequential code, so a step that can be taken is
\* taken
InitTermination ==
    /\ \E fa \in {l \in RequestLists : Len(l) <= 1}, rooms \in RoomLists,
          df \in Histories, avoid \in BOOLEAN : AutoCalled(fa, rooms, df, avoid)
    /\ IdleValidate
    /\ IdleSave
    /\ IdleSweep

SpecTermination == InitTermination /\ [][Next]_vars /\ WF_vars(Next)

\* The capacity test of lines 378-381 alone, on lists of one or two requests
\* of F1 without a pre-assigned room, for 1, 2, 6 or 10 classes each
WarningRequestLists ==
    UNION {[1..n -> [faculty_id : {"F1"}, subject_id : {"S1"},
                     num_classes : {1, 2, 6, 10}, tenure : 1..MaxTenure,
                     room : {NoRoom}]] : n \in {1, 2}}

InitWarning ==
    /\ \E fa \in {<<>>} \cup WarningRequestLists, rooms \in RoomLists,
          avoid \in BOOLEAN : AutoCalled(fa, rooms, {}, avoid)
    /\ IdleValidate
    /\ IdleSave
    /\ IdleSweep

SpecWarning == InitWarning /\ [][EmptyRequests \/ CheckCapacity]_vars

\* validate_timetable_row called up to MaxCalls times on one row
DayWords == {"Monday", "Friday", "Sunday"}
StartHours == {<<9>>, <<0, 9>>, <<1, 0>>, <<1, 2>>, <<1, 3>>, <<1, 5>>, <<1, 7>>}
EndHours == {<<9>>, <<1, 0>>, <<1, 1>>, <<1, 3>>, <<1, 4>>, <<1, 6>>, <<1, 8>>, <<1, 9>>}
Minutes == {<<0, 0>>, <<3, 0>>}

StartTimes ==
    {NoTime, EmptyTime, NumberTime(<<1, 0>>)}
    \cup {TimeValue(d, h, m) : d \in DayWords, h \in StartHours, m \in Minutes}
EndTimes ==
    {NoTime, NumberTime(<<1, 1>>)}
    \cup {TimeValue(d, h, m) : d \in DayWords, h \in EndHours, m \in Minutes}

Rows ==
    {[f \in {"Timetable ID", "Department ID", "Subject ID", "Start Time", "End Time"} |->
        CASE f = "Timetable ID"  -> tid
          [] f = "Department ID" -> dep
          [] f = "Subject ID"    -> sub
          [] f = "Start Time"    -> st
          [] OTHER               -> en] :
      tid \in {NoValue, Text("T1")}, dep \in {NoValue, Number("0"), Text("CS")},
      sub \in {Text(""), Text("S1")}, st \in StartTimes, en \in EndTimes}

InitValidate ==
    /\ row \in Rows
    /\ assign_missing_id = FALSE
    /\ v_result = NoResult
    /\ v_calls = 0
    /\ uuids = 0
    /\ IdleAuto
    /\ IdleSweep
    /\ IdleSave

SpecValidate == InitValidate /\ [][Validate]_vars

\* the conflict sweep on a schedule of up to two slots entered in the form
ManualDays == {"Monday", "Tuesday"}

ManualSlots ==
    {NewSlot(d, t, f, "S1", r, n) :
        d \in ManualDays, t \in Range(all_time_slots),
        f \in Faculties, r \in {"R1", "R2"},
        n \in 1..MaxTenure}

LegalManualSlots ==
    {s \in ManualSlots : ~ExceedsOrCrossesLunch(HourOf(s.start_time), s.tenure)}

\* lines 805-813: the form appends the slot to the schedule built so far
\* (the test of line 798 is in LegalManualSlots)
FormAppends(sched, slot) ==
    /\ ~ \E i \in DOMAIN sched :
            sched[i].start_time = slot.start_time /\ sched[i].room = slot.room
    /\ slot.tenure = 1 =>
            check_faculty_gap(sched, slot.faculty_id, slot.day, slot.start_time,
                              slot.tenure)

\* the schedules of up to two slots that the form of lines 759-823 builds
FormSchedules ==
    {sched \in UNION {[1..n -> LegalManualSlots] : n \in {0, 1, 2}} :
        \A i \in DOMAIN sched : FormAppends(SubSeq(sched, 1, i - 1), sched[i])}

InitSweep ==
    /\ m_schedule \in FormSchedules
    /\ m_pc = "submitted"
    /\ room_conflicts = {}
    /\ faculty_conflicts = {}
    /\ faculty_gap_issues = {}
    /\ has_errors = FALSE
    /\ form_error = FALSE
    /\ IdleAuto
    /\ IdleValidate
    /\ IdleSave

SpecSweep == InitSweep /\ [][Sweep]_vars

\* Manual mode from the form to the sweep.  The widget values of one class:
\* the day, the start time and the room of the selectboxes of lines 774-794
FormEntries(rooms) ==
    [day : ManualDays, time : Range(all_time_slots), room : Range(rooms)]

\* lines 770-823: the classes k.. of one assignment, entered as es, are
\* added to the schedule; an error empties the schedule and leaves the loop
\* over the classes of this assignment (`schedule = []; break`)
RECURSIVE FormClasses(_, _, _, _, _)
FormClasses(a, es, k, sched, err) ==
    IF k > a.num_classes THEN [schedule |-> sched, error |-> err]
    ELSE
      LET room == IF a.room # NoRoom THEN a.room ELSE es[k].room
          slot == NewSlot(es[k].day, es[k].time, a.faculty_id, a.subject_id,
                          room, a.tenure)
      IN  IF \/ ExceedsOrCrossesLunch(ToInt(es[k].time.hh), a.tenure)
             \/ ~FormAppends(sched, slot)
          THEN [schedule |-> <<>>, error |-> TRUE]
          ELSE FormClasses(a, es, k + 1, Append(sched, slot), err)

\* lines 759-823: the loop over the assignments i..; entries lists the
\* entries of all classes, those of assignment i after those of the
\* assignments before it
RECURSIVE FormAssignments(_, _, _, _, _)
FormAssignments(fa, entries, i, sched, err) ==
    IF i > Len(fa) THEN [schedule |-> sched, error |-> err]
    ELSE LET before == SumClasses(SubSeq(fa, 1, i - 1))
             es == SubSeq(entries, before + 1, before + fa[i].num_classes)
             r  == FormClasses(fa[i], es, 1, sched, err)
         IN  FormAssignments(fa, entries, i + 1, r.schedule, r.error)

\* the form is submitted with some entries: the script builds the schedule
\* (lines 754-823) and comes to the sweep
BuildSchedule ==
    /\ m_pc = "form"
    /\ \E entries \in [1..SumClasses(faculty_assignments)
                          -> FormEntries(dept_rooms)] :
         LET r == FormAssignments(faculty_assignments, entries, 1, <<>>, FALSE)
         IN  /\ m_schedule' = r.schedule
             /\ form_error' = r.error
    /\ m_pc' = "submitted"
    /\ UNCHANGED <<room_conflicts, faculty_conflicts, faculty_gap_issues,
                   has_errors, autoVars, validateVars, saveVars>>

\* create_timetable_page in manual mode, with confirmed assignments (one or
\* two requests, two classes at most), the rooms R1 and R2 and a history
ManualPage(fa, rooms, df) ==
    /\ faculty_assignments = fa
    /\ dept_rooms = rooms
    /\ timetables_df = df
    /\ avoid_friday_afternoon = FALSE
    /\ pc = "idle"
    /\ schedule = <<>>
    /\ used_slots = {}
    /\ faculty_slots = {}
    /\ room_usage = <<>>
    /\ day_usage = <<>>
    /\ capacity_warning = FALSE
    /\ warnings = {}
    /\ a_idx = 0
    /\ selected_days = <<>>
    /\ class_idx = 0
    /\ classes_assigned = 0
    /\ attempt = 0
    /\ day = NoDay

InitManual ==
    /\ \E fa \in RequestLists \ {<<>>}, df \in Histories :
          ManualPage(fa, <<"R1", "R2">>, df)
    /\ m_schedule = <<>>
    /\ m_pc = "form"
    /\ room_conflicts = {}
    /\ faculty_conflicts = {}
    /\ faculty_gap_issues = {}
    /\ has_errors = FALSE
    /\ form_error = FALSE
    /\ IdleValidate
    /\ IdleSave

SpecManual == InitManual /\ [][BuildSchedule \/ Sweep]_vars

-----------------------------------------------------------------------------
(* save_timetable *)

\* range(3) of line 221
SaveAttempts == 3
\* the factor of line 258
BaseWait == 60

RECURSIVE Pow2(_)
Pow2(n) == IF n = 0 THEN 1 ELSE 2 * Pow2(n - 1)

\* a wait that does not grow with the attempt
WaitTimeConstant(att) == BaseWait

\* wait_time of line 258
WaitTime(att) == BaseWait * Pow2(att)

timetable_id == Text("T1")

\* the row built at lines 227-236, as validate_timetable_row reads it
SaveRow(slot, department_id) ==
    [col \in {"Timetable ID", "Department ID", "Subject ID", "Start Time", "End Time"} |->
        CASE col = "Timetable ID"  -> timetable_id
          [] col = "Department ID" -> Text(department_id)
          [] col = "Subject ID"    -> Text(slot.subject_id)
          [] col = "Start Time"    -> TimeValue(slot.start_time.day, slot.start_time.hh,
                                                slot.start_time.mm)
          [] OTHER                 -> TimeValue(slot.end_time.day, slot.end_time.hh,
                                                slot.end_time.mm)]

\* is_valid of line 237
RowValid(slot, department_id) ==
    validate_timetable_row(SaveRow(slot, department_id), FALSE, NoValue).ok

\* the list appended to batch_rows at lines 241-250; the date is the clock's
BatchRow(slot, department_id) ==
    <<timetable_id.text, "now", department_id, slot.room, slot.faculty_id,
      slot.subject_id, slot.start_time, slot.end_time>>

\* the loop of lines 226-250: the rows collected before the first rejected
\* row, and whether the loop met one
RECURSIVE BuildBatch(_, _, _, _)
BuildBatch(sched, department_id, k, batch_rows) ==
    IF k > Len(sched) THEN [rows |-> batch_rows, refused |-> FALSE]
    ELSE IF ~RowValid(sched[k], department_id)
         THEN [rows |-> batch_rows, refused |-> TRUE]
    ELSE BuildBatch(sched, department_id, k + 1,
                    Append(batch_rows, BatchRow(sched[k], department_id)))

\* appending every accepted row as soon as it is validated, one call a row
AppendedRowByRow(sched, department_id) ==
    LET b == BuildBatch(sched, department_id, 1, <<>>)
    IN  [k \in 1..Len(b.rows) |-> <<b.rows[k]>>]

\* the calls of append_rows one pass of lines 222-252 makes when the
\* collaborator does not fail: none after a rejected row (return at line
\* 240), else one with the whole batch (line 252)
AppendedByPass(sched, department_id) ==
    LET b == BuildBatch(sched, department_id, 1, <<>>)
    IN  IF b.refused THEN <<>> ELSE <<b.rows>>

\* lines 219-220
SaveNoSheet ==
    /\ s_pc = "call"
    /\ ~s_sheet
    /\ s_pc' = "returned"
    /\ UNCHANGED <<s_sheet, s_schedule, s_department, s_attempt, s_waits, s_error,
                   s_appended, autoVars, validateVars, sweepVars>>

\* line 221, first iteration
SaveEnterLoop ==
    /\ s_pc = "call"
    /\ s_sheet
    /\ s_pc' = "try"
    /\ UNCHANGED <<s_sheet, s_schedule, s_department, s_attempt, s_waits, s_error,
                   s_appended, autoVars, validateVars, sweepVars>>

\* lines 222-255 when neither sheet.worksheet nor append_rows raises
SavePass ==
    /\ s_pc = "try"
    /\ s_attempt < SaveAttempts
    /\ LET b == BuildBatch(s_schedule, s_department, 1, <<>>)
       IN  /\ s_pc' = IF b.refused THEN "refused" ELSE "saved"
           /\ s_appended' = s_appended \o AppendedByPass(s_schedule, s_department)
    /\ s_error' = "none"
    /\ UNCHANGED <<s_sheet, s_schedule, s_department, s_attempt, s_waits,
                   autoVars, validateVars, sweepVars>>

\* a call of the collaborator raises: sheet.worksheet (line 223), before any
\* row is looked at, or append_rows (line 252), which the pass reaches only
\* with no rejected row.  "429" and "api" are APIError with and without the
\* rate-limit status (lines 256-263); "other" is any other exception, which
\* the except clause does not catch.
SaveCollaboratorError ==
    /\ s_pc = "try"
    /\ s_attempt < SaveAttempts
    /\ \E e \in {"429", "api", "other"} :
         /\ s_error' = e
         /\ IF e = "429" /\ s_attempt < 2
            THEN /\ s_waits' = Append(s_waits, WaitTime(s_attempt))
                 /\ s_attempt' = s_attempt + 1
                 /\ s_pc' = "try"
            ELSE /\ s_pc' = IF e = "other" THEN "raised" ELSE "failed"
                 /\ UNCHANGED <<s_waits, s_attempt>>
    /\ UNCHANGED <<s_sheet, s_schedule, s_department, s_appended,
                   autoVars, validateVars, sweepVars>>

\* schedules handed to save_timetable: slots the validator accepts and slots
\* it rejects (no subject; four hours)
SaveSlots ==
    {NewSlot("Monday", Clock(10), "F1", "S1", "R1", 1),
     NewSlot("Monday", Clock(14), "F2", "S2", "R2", 3),
     NewSlot("Tuesday", Clock(11), "F1", "", "R1", 1),
     NewSlot("Monday", Clock(14), "F1", "S1", "R1", 4)}

SaveSchedules == UNION {[1..n -> SaveSlots] : n \in 0..2}

InitSave ==
    /\ s_sheet \in BOOLEAN
    /\ s_schedule \in SaveSchedules
    /\ s_department \in {"CS", ""}
    /\ s_pc = "call"
    /\ s_attempt = 0
    /\ s_waits = <<>>
    /\ s_error = "none"
    /\ s_appended = <<>>
    /\ IdleAuto
    /\ IdleValidate
    /\ IdleSweep

NextSave == SaveNoSheet \/ SaveEnterLoop \/ SavePass \/ SaveCollaboratorError

SpecSave == InitSave /\ [][NextSave]_vars


-----------------------------------------------------------------------------
(* Properties *)

StartHour(slot) == HourOf(slot.start_time)
EndHour(slot) == HourOf(slot.end_time)

\* two slots on the same day whose [start, end) intervals overlap
Overlap(a, b) ==
    /\ a.day = b.day
    /\ StartHour(a) < EndHour(b)
    /\ EndHour(a) > StartHour(b)

Returned == pc = "done"

\* C1: in the schedule auto_assign_timeslots returns, no two distinct slots
\* have the same faculty id, the same day and overlapping [start, end)
C1_NoFacultyOverlap ==
    Returned =>
        \A i, j \in DOMAIN schedule :
            (i # j /\ schedule[i].faculty_id = schedule[j].faculty_id)
                => ~Overlap(schedule[i], schedule[j])

\* C2: in the schedule auto_assign_timeslots returns, no two distinct slots
\* have the same room, the same day and overlapping [start, end)
C2_NoRoomOverlap ==
    Returned =>
        \A i, j \in DOMAIN schedule :
            (i # j /\ schedule[i].room = schedule[j].room)
                => ~Overlap(schedule[i], schedule[j])

PermittedStartHours == {10, 11, 12, 14, 15, 16, 17}

LegalSlot(slot) ==
    /\ StartHour(slot) \in PermittedStartHours
    /\ slot.start_time.mm = <<0, 0>>
    /\ slot.end_time.mm = <<0, 0>>
    /\ slot.start_time.day = slot.day
    /\ slot.end_time.day = slot.day
    /\ EndHour(slot) = StartHour(slot) + slot.tenure
    /\ EndHour(slot) <= 18
    /\ 13 \notin StartHour(slot) .. (EndHour(slot) - 1)

\* C3: every slot appended by auto_assign_timeslots starts at one of the
\* hours 10, 11, 12, 14, 15, 16, 17, ends at start + duration, at most 18,
\* and its interval [start, end) does not contain hour 13
C3_SlotsLegal ==
    \A i \in DOMAIN schedule : LegalSlot(schedule[i])

\* a 3-hour slot that ends at 18:00 and a 1-hour slot that ends at 13:00
\* have been appended
C3_Witness ==
    /\ Returned
    /\ \E i \in DOMAIN schedule :
           schedule[i].tenure = 3 /\ EndHour(schedule[i]) = 18
    /\ \E i \in DOMAIN schedule :
           schedule[i].tenure = 1 /\ EndHour(schedule[i]) = 13

\* C4: in the schedule auto_assign_timeslots returns, for every 1-hour slot
\* of a faculty on a day starting at hour h, no other slot of that faculty
\* on that day starts at h-1 or at h+1
C4_OneHourGap ==
    Returned =>
        \A i, j \in DOMAIN schedule :
            (/\ i # j
             /\ schedule[i].tenure = 1
             /\ schedule[i].faculty_id = schedule[j].faculty_id
             /\ schedule[i].day = schedule[j].day)
                => /\ StartHour(schedule[j]) # StartHour(schedule[i]) - 1
                   /\ StartHour(schedule[j]) # StartHour(schedule[i]) + 1

\* C5: called with an empty list of requests, auto_assign_timeslots
\* returns an empty schedule and raises no error
C5_EmptyReturnsEmpty ==
    (faculty_assignments = <<>> /\ pc \notin {"idle", "start"})
        => (Returned /\ schedule = <<>>)

\* the input of C6: one request of 2 one-hour classes in a pre-assigned
\* room of the room list, and no history row of its faculty
C6_Input ==
    /\ Len(faculty_assignments) = 1
    /\ faculty_assignments[1].num_classes = 2
    /\ faculty_assignments[1].tenure = 1
    /\ faculty_assignments[1].room \in Range(dept_rooms)
    /\ \A r \in timetables_df : r.faculty_id # faculty_assignments[1].faculty_id

\* C6: on the input C6_Input auto_assign_timeslots raises nothing, gives
\* no class up and returns exactly 2 slots, both of the request's faculty
\* and subject in its room, on two different days, each a legal 1-hour
\* interval; and every run goes on until it returns
C6_TwoClassesOnTwoDays ==
    C6_Input =>
        /\ pc # "raised"
        /\ warnings = {}
        /\ Returned \/ ENABLED Next
        /\ Returned =>
             /\ Len(schedule) = 2
             /\ \A i \in 1..2 :
                    /\ schedule[i].faculty_id = faculty_assignments[1].faculty_id
                    /\ schedule[i].subject_id = faculty_assignments[1].subject_id
                    /\ schedule[i].room = faculty_assignments[1].room
                    /\ schedule[i].tenure = 1
                    /\ LegalSlot(schedule[i])
             /\ schedule[1].day # schedule[2].day

\* the run on the input of C6, with a history of another faculty, has
\* returned
C6_Witness ==
    /\ C6_Input
    /\ timetables_df # {}
    /\ Returned
    /\ Len(schedule) = 2

RECURSIVE ClassHours(_)
ClassHours(fa) ==
    IF fa = <<>> THEN 0
    ELSE Head(fa).num_classes * Head(fa).tenure + ClassHours(Tail(fa))

\* the requested class-hours exceed days x start hours x rooms
OverCapacity ==
    ClassHours(faculty_assignments)
        > MaxSlots(avoid_friday_afternoon, dept_rooms)

\* every pre-assigned room is a room of the list
RoomsKnown ==
    \A i \in DOMAIN faculty_assignments :
        faculty_assignments[i].room \in Range(dept_rooms) \cup {NoRoom}

\* C7: when the requested class-hours exceed days x start hours x rooms,
\* auto_assign_timeslots returns without raising, has emitted the capacity
\* warning, and returns fewer slots than classes were requested (stated
\* here for requests whose pre-assigned rooms are rooms of the list)
C7_OverCapacityPartial ==
    (OverCapacity /\ RoomsKnown /\ pc \in {"done", "raised"})
        => /\ Returned
           /\ capacity_warning
           /\ Len(schedule) < SumClasses(faculty_assignments)

\* the schedule of C8: two 1-hour slots of one faculty on one day in
\* different rooms whose start hours differ by 1
C8_Input ==
    /\ Len(m_schedule) = 2
    /\ m_schedule[1].tenure = 1
    /\ m_schedule[2].tenure = 1
    /\ m_schedule[1].faculty_id = m_schedule[2].faculty_id
    /\ m_schedule[1].day = m_schedule[2].day
    /\ m_schedule[1].room # m_schedule[2].room
    /\ StartHour(m_schedule[1]) - StartHour(m_schedule[2]) \in {-1, 1}

\* C8: the sweep on such a schedule flags exactly one gap violation
\* description and no room or faculty conflict
C8_OneGapDescription ==
    (m_pc = "swept" /\ C8_Input)
        => /\ Cardinality(faculty_gap_issues) = 1
           /\ room_conflicts = {}
           /\ faculty_conflicts = {}

\* a time value that matches '<Weekday> HH:MM'
C9_TimeText(v) ==
    /\ v.kind = "text"
    /\ v.day \in {"Monday", "Tuesday", "Wednesday", "Thursday", "Friday"}
    /\ Len(v.hh) = 2
    /\ Len(v.mm) = 2

\* the range rule: the start is a permitted start time, and
\* 0 < end hour - start hour <= 3 with end hour <= 18
C9_InRange(r) ==
    LET start_hour == ToInt(r["Start Time"].hh)
        end_hour   == ToInt(r["End Time"].hh)
    IN  /\ start_hour \in PermittedStartHours
        /\ r["Start Time"].mm = <<0, 0>>
        /\ 0 < end_hour - start_hour
        /\ end_hour - start_hour <= 3
        /\ end_hour <= 18

C9_SomeMissing(r) ==
    \E col \in Range(required_fields) : ~FieldTruthy(r, col)

\* the reason of the first failing rule in the order missing fields,
\* format, cross-day, range; "" when no rule fails
C9_FirstFailing(r) ==
    IF C9_SomeMissing(r) THEN "Missing required fields"
    ELSE IF ~(C9_TimeText(r["Start Time"]) /\ C9_TimeText(r["End Time"]))
         THEN "Invalid time format"
    ELSE IF r["Start Time"].day # r["End Time"].day
         THEN "Start and end times must be on the same day"
    ELSE IF ~C9_InRange(r) THEN "Invalid or out-of-range time"
    ELSE ""

\* C9 as stated: validate_timetable_row returns ok exactly when no rule
\* fails, and otherwise the reason of the first failing rule in the order
\* missing fields, format, cross-day, range
C9_AsClaimed ==
    v_calls >= 1 =>
        /\ v_result.ok <=> (C9_FirstFailing(row) = "")
        /\ v_result.reason.msg = C9_FirstFailing(row)

\* the format rule meets a value that is no text: the start time, or the
\* end time after a start time that matches
C9_FormatRaises(r) ==
    /\ ~C9_SomeMissing(r)
    /\ \/ r["Start Time"].kind # "text"
       \/ (C9_TimeText(r["Start Time"]) /\ r["End Time"].kind # "text")

\* C9 (amended): validate_timetable_row returns ok exactly when no rule
\* fails; otherwise it returns the reason of the first failing rule in the
\* order missing fields, format, cross-day, range, except that a present
\* start or end time that is no text, once the format rule gets to it, is
\* reported as "Validation error" and not as "Invalid time format"
C9_VerdictAndReason ==
    v_calls >= 1 =>
        /\ v_result.ok <=> (C9_FirstFailing(row) = "")
        /\ v_result.reason.msg =
             IF C9_FormatRaises(row) THEN "Validation error"
             ELSE C9_FirstFailing(row)
        /\ v_result.reason.fields =
             IF C9_SomeMissing(row)
             THEN SelectSeq(required_fields, LAMBDA col : ~FieldTruthy(row, col))
             ELSE <<>>

\* a row whose start time matches and whose end time is a number has been
\* refused with "Validation error"
C9_Witness ==
    /\ v_calls = 1
    /\ C9_TimeText(row["Start Time"])
    /\ row["End Time"].kind = "number"
    /\ ~v_result.ok
    /\ v_result.reason.msg = "Validation error"

\* C10 as stated: re-validating a row that validate_timetable_row has
\* accepted returns ok with the empty reason again and leaves the row
\* unchanged, for either value of assign_missing_id
C10_AsClaimed ==
    [][(v_calls >= 1 /\ v_result.ok)
          => /\ v_result'.ok
             /\ v_result'.reason = Reason("")
             /\ row' = row]_vars

\* the call has given the row, which had no identifier, an identifier and
\* changed nothing else
C10_IdentifierSynthesized ==
    /\ ~Truthy(row["Timetable ID"])
    /\ Truthy(row'["Timetable ID"])
    /\ \A f \in DOMAIN row : f # "Timetable ID" => row'[f] = row[f]

\* C10 (amended): re-validating a row that validate_timetable_row has
\* accepted returns ok with the empty reason again; it leaves the row
\* unchanged, unless the row has no identifier (the earlier validations ran
\* with assign_missing_id unset) and this one runs with assign_missing_id
\* set: then it synthesizes the identifier and changes nothing else
C10_RevalidationAccepts ==
    [][(v_calls >= 1 /\ v_result.ok)
          => /\ v_result'.ok
             /\ v_result'.reason = Reason("")
             /\ \/ row' = row
                \/ /\ ~assign_missing_id
                   /\ assign_missing_id'
                   /\ C10_IdentifierSynthesized]_vars

\* a row whose identifier the first validation synthesized has been
\* validated again, with assign_missing_id unset, and accepted
C10_Witness ==
    /\ v_calls = 2
    /\ v_result.ok
    /\ uuids = 1
    /\ ~assign_missing_id

\* C11: on a non-empty list of requests auto_assign_timeslots raises no
\* error, whatever the room list and the pre-assigned rooms
C11_NeverRaises ==
    faculty_assignments # <<>> => pc # "raised"

\* lines 877-890: the sweep flagged nothing, and the schedule is handed to
\* save_timetable
HandedToSave == m_pc = "swept" /\ ~has_errors

\* C12: a schedule that manual mode hands to save_timetable has no two
\* slots on the same day with overlapping [start, end) that share a
\* faculty id or share a room
C12_ManualNoOverlap ==
    HandedToSave =>
        \A i, j \in DOMAIN m_schedule :
            (/\ i # j
             /\ \/ m_schedule[i].faculty_id = m_schedule[j].faculty_id
                \/ m_schedule[i].room = m_schedule[j].room)
                => ~Overlap(m_schedule[i], m_schedule[j])

\* the interval [start hour, end hour) of the row contains the lunch hour
C13_ContainsLunch(r) ==
    /\ C9_TimeText(r["Start Time"])
    /\ C9_TimeText(r["End Time"])
    /\ 13 \in ToInt(r["Start Time"].hh) .. (ToInt(r["End Time"].hh) - 1)

\* C13: validate_timetable_row rejects every row whose interval
\* [start hour, end hour) contains the lunch hour 13
C13_RejectsLunch ==
    (v_calls >= 1 /\ C13_ContainsLunch(row)) => ~v_result.ok

\* the slot and the history row are of one faculty and one day, and
\* slot.start < row.end and slot.end > row.start
OverlapsHistory(slot, r) ==
    /\ r.faculty_id = slot.faculty_id
    /\ r.start_time.day = slot.day
    /\ StartHour(slot) < HourOf(r.end_time)
    /\ EndHour(slot) > HourOf(r.start_time)

\* the slot the current assignment would get at start time t of the
\* current day
Candidate(t) ==
    NewSlot(day, t, Assignment.faculty_id, Assignment.subject_id, NoRoom,
            Assignment.tenure)

\* C14: no slot of the schedule auto_assign_timeslots returns overlaps a
\* history slot of the same faculty on the same day; and the history check
\* refuses a candidate exactly when it overlaps one, so a candidate that
\* only touches a history slot passes it
C14_NoHistoryOverlap ==
    /\ Returned =>
         \A i \in DOMAIN schedule : \A r \in timetables_df :
             ~OverlapsHistory(schedule[i], r)
    /\ pc = "attempt" =>
         \A t \in Range(TimeSlots(avoid_friday_afternoon)) :
             check_faculty_schedule_conflict(timetables_df, Assignment.faculty_id,
                                             TimeText(day, t), Assignment.tenure)
               <=> ~ \E r \in timetables_df : OverlapsHistory(Candidate(t), r)

\* a returned slot ends at the hour at which a history slot of its faculty
\* starts on that day
C14_Witness ==
    /\ Returned
    /\ \E i \in DOMAIN schedule : \E r \in timetables_df :
           /\ r.faculty_id = schedule[i].faculty_id
           /\ r.start_time.day = schedule[i].day
           /\ EndHour(schedule[i]) = HourOf(r.start_time)

\* C15: no slot of the schedule auto_assign_timeslots returns has the same
\* room, the same day and an overlapping [start, end) as a slot of the
\* persisted history
C15_NoHistoryRoomOverlap ==
    Returned =>
        \A i \in DOMAIN schedule : \A r \in timetables_df :
            ~ /\ r.room = schedule[i].room
              /\ r.start_time.day = schedule[i].day
              /\ StartHour(schedule[i]) < HourOf(r.end_time)
              /\ EndHour(schedule[i]) > HourOf(r.start_time)

\* the schedule holds a multi-hour slot of the faculty on the day whose
\* first covered hour is h+1 or whose last covered hour is h-1
C16_BlockNextTo(sched, faculty_id, d, h) ==
    \E i \in DOMAIN sched :
        /\ sched[i].faculty_id = faculty_id
        /\ sched[i].day = d
        /\ EndHour(sched[i]) - StartHour(sched[i]) > 1
        /\ \/ StartHour(sched[i]) = h + 1
           \/ EndHour(sched[i]) - 1 = h - 1

\* C16: check_faculty_gap rejects a 1-hour candidate at hour h of a faculty
\* on a day whenever the schedule holds a multi-hour slot of that faculty on
\* that day whose first covered hour is h+1 or whose last covered hour is
\* h-1
C16_GapAroundBlocks ==
    (pc = "attempt" /\ Assignment.tenure = 1) =>
        \A t \in Range(TimeSlots(avoid_friday_afternoon)) :
            C16_BlockNextTo(schedule, Assignment.faculty_id, day, ToInt(t.hh))
                => ~check_faculty_gap(schedule, Assignment.faculty_id, day,
                                      TimeText(day, t), Assignment.tenure)

\* the attempts of the current class are used up and it is not assigned
C17_ClassGivenUp ==
    pc = "attempt" /\ attempt >= MaxAttempts

\* C17: when a class of a request has used up its attempts and is left
\* unscheduled, auto_assign_timeslots goes on with the next class of the
\* same request if there is one, and with the next request otherwise
C17_GoesOnAfterGivenUpClass ==
    [][C17_ClassGivenUp =>
          IF class_idx + 1 < Assignment.num_classes
          THEN /\ pc' = "attempt"
               /\ a_idx' = a_idx
               /\ class_idx' = class_idx + 1
               /\ attempt' = 0
          ELSE /\ a_idx' = a_idx + 1
               /\ pc' \in {"assignment", "done"}]_vars

\* the step makes a pass over the shuffled start hours for the current
\* class: it commits a slot or counts a failed pass
C18_MakesPass ==
    pc = "attempt" /\ (schedule' # schedule \/ attempt' = attempt + 1)

\* C18: auto_assign_timeslots terminates (it returns or raises), and for
\* each class it makes at most max_attempts passes, each over at most 7
\* start hours, before the class is committed or given up
C18_TerminatesWithinAttempts ==
    /\ <>(pc \in {"done", "raised"})
    /\ [](attempt <= MaxAttempts)
    /\ [](Len(TimeSlots(avoid_friday_afternoon)) <= 7)
    /\ [][C18_MakesPass => attempt < MaxAttempts]_vars
    /\ [][(pc = "attempt" /\ attempt >= MaxAttempts)
             => (schedule' = schedule /\ attempt' = 0 /\ a_idx' = a_idx + 1)]_vars

\* a class has used up all its passes and the function has returned
C18_Witness ==
    /\ Returned
    /\ \E w \in warnings : w.kind = "unscheduled"

\* the cumulative duration of the slots of the schedule in room r
RECURSIVE AssignedDuration(_, _)
AssignedDuration(sched, r) ==
    IF sched = <<>> THEN 0
    ELSE (IF Head(sched).room = r THEN Head(sched).tenure ELSE 0)
         + AssignedDuration(Tail(sched), r)

\* room r is booked in the schedule at the day and start hour of the slot
C19_Booked(sched, r, slot) ==
    \E i \in DOMAIN sched :
        sched[i].room = r /\ sched[i].start_time = slot.start_time

\* the room of the slot is a least used one among the rooms of the list not
\* booked at its day and start hour, and the earliest such room of the list
C19_LeastUsedFree(sched, rooms, slot) ==
    \E i \in DOMAIN rooms :
        /\ rooms[i] = slot.room
        /\ ~C19_Booked(sched, slot.room, slot)
        /\ \A j \in DOMAIN rooms :
               ~C19_Booked(sched, rooms[j], slot) =>
                   \/ AssignedDuration(sched, slot.room)
                        < AssignedDuration(sched, rooms[j])
                   \/ /\ AssignedDuration(sched, slot.room)
                           = AssignedDuration(sched, rooms[j])
                      /\ i <= j

\* C19: the room of a committed slot is, for a request without a
\* pre-assigned room, the room with the smallest cumulative assigned
\* duration at the moment of the commit among the rooms not booked at that
\* day and start hour, ties going to the earliest room of the list; for a
\* request with a pre-assigned room it is that room
C19_RoomOfCommit ==
    [][schedule' # schedule =>
          LET slot == schedule'[Len(schedule')]
          IN  /\ schedule' = Append(schedule, slot)
              /\ IF Assignment.room # NoRoom
                 THEN slot.room = Assignment.room
                 ELSE C19_LeastUsedFree(schedule, dept_rooms, slot)]_vars

\* of two slots without a pre-assigned room the first has gone, the usage
\* being tied, to the first room of the list, and the second, at another
\* start time, to the second room, then the less used one
C19_Witness ==
    /\ Returned
    /\ Len(schedule) = 2
    /\ \A i \in DOMAIN faculty_assignments : faculty_assignments[i].room = NoRoom
    /\ Len(dept_rooms) = 2
    /\ schedule[1].room = dept_rooms[1]
    /\ schedule[2].room = dept_rooms[2]
    /\ schedule[1].start_time # schedule[2].start_time

\* C20: with avoid_friday_afternoon set, the start hours searched for a
\* class are all seven on Monday to Thursday, and those before 15 on Friday
C20_OnlyFridayAfternoonRemoved ==
    (pc = "attempt" /\ avoid_friday_afternoon) =>
        {ToInt(t.hh) : t \in Range(TimeSlots(avoid_friday_afternoon))}
            = IF day = "Friday" THEN {10, 11, 12, 14} ELSE PermittedStartHours

\* C21: the capacity warning of auto_assign_timeslots is emitted exactly
\* when the sum over the requests of classes x duration exceeds
\* days x start hours x rooms
C21_WarningIffOverCapacity ==
    pc = "assignment" => (capacity_warning <=> OverCapacity)

\* C22: in manual mode, if a class entered in the form is found to cross
\* lunch or the closing hour, to double-book a room at the same start or to
\* violate the gap rule, no schedule is handed to save_timetable
C22_FormErrorBlocksSave ==
    form_error => ~HandedToSave

\* C23: a manually entered slot whose faculty has an overlapping slot on the
\* same day in the persisted history is refused: no schedule with such a
\* slot is handed to save_timetable
C23_ManualChecksHistory ==
    HandedToSave =>
        \A i \in DOMAIN m_schedule : \A r \in timetables_df :
            ~OverlapsHistory(m_schedule[i], r)


\* save_timetable has returned or raised
SaveEnded == s_pc \in {"returned", "saved", "refused", "failed", "raised"}

\* the third attempt failed on the rate limit after two waits
C24_Witness == s_pc = "failed" /\ s_error = "429" /\ s_waits = <<60, 120>>

\* one pass of the try block, by what it raised
C24_Attempt ==
    s_pc = "try" =>
        /\ (s_error' = "429" /\ s_attempt = 0) =>
               s_waits' = Append(s_waits, 60) /\ s_attempt' = 1 /\ s_pc' = "try"
        /\ (s_error' = "429" /\ s_attempt = 1) =>
               s_waits' = Append(s_waits, 120) /\ s_attempt' = 2 /\ s_pc' = "try"
        /\ ((s_error' = "429" /\ s_attempt = 2) \/ s_error' \in {"api", "other"}) =>
               /\ s_pc' \in {"failed", "raised"}
               /\ s_waits' = s_waits
               /\ s_appended' = s_appended
        /\ s_error' = "none" => s_pc' \in {"saved", "refused"}
        /\ s_pc' = "try" => s_attempt' = s_attempt + 1

\* C24: save_timetable makes at most 3 attempts: the loop variable never
\* passes 2 and every attempt either ends the save or moves it on by one; a
\* 429 on the first attempt is followed by a wait of 60 and a retry, one on
\* the second by a wait of 120 and a retry; a 429 on the third attempt, or
\* any other collaborator error on any attempt, ends the save with an error
\* (shown by st.error, or raised to the caller when it is no APIError),
\* without a wait and without an append; and once the save has ended, after
\* a successful append or otherwise, nothing more happens.
C24_BoundedRetries ==
    /\ [](s_attempt \in 0..2 /\ s_waits = SubSeq(<<60, 120>>, 1, s_attempt))
    /\ [][C24_Attempt]_vars
    /\ [][SaveEnded => UNCHANGED saveVars]_vars
    /\ [](s_pc = "saved" => Len(s_appended) = 1)


\* validate_timetable_row accepts the row of every slot of the schedule
AllRowsValid ==
    \A k \in 1..Len(s_schedule) : RowValid(s_schedule[k], s_department)

\* the rows of the whole schedule, in schedule order
WholeBatch == [k \in 1..Len(s_schedule) |-> BatchRow(s_schedule[k], s_department)]

\* the save was refused at the second row, after the first was accepted
C27_Witness ==
    /\ s_pc = "refused"
    /\ Len(s_schedule) = 2
    /\ RowValid(s_schedule[1], s_department)
    /\ ~RowValid(s_schedule[2], s_department)

\* C27: with respect to row validation save_timetable appends all rows or
\* none.  When the row of some slot is rejected, nothing is ever appended
\* to the worksheet and the save ends refused; when no row is rejected, the
\* only thing ever appended is one batch holding the rows of all slots in
\* schedule order, and a pass that the collaborator lets through appends it.
C27_AllOrNothing ==
    /\ ~AllRowsValid => s_appended = <<>> /\ s_pc # "saved"
    /\ AllRowsValid => s_appended \in {<<>>, <<WholeBatch>>} /\ s_pc # "refused"
    /\ s_pc = "saved" => s_appended = <<WholeBatch>>


\* the number of slots of the schedule that belong to the i-th request (the
\* requests of a list differ in their subjects)
Committed(i) ==
    Cardinality({k \in 1..Len(schedule) :
        /\ schedule[k].subject_id = faculty_assignments[i].subject_id
        /\ schedule[k].faculty_id = faculty_assignments[i].faculty_id})

\* a could-not-schedule warning for the i-th request
WarnedUnscheduled(i) ==
    \E w \in warnings :
        /\ w.kind = "unscheduled"
        /\ w.subject_id = faculty_assignments[i].subject_id
        /\ w.faculty_id = faculty_assignments[i].faculty_id

\* the function has returned with the first request served in full and the
\* second one warned about
C25_Witness ==
    /\ Returned
    /\ Len(faculty_assignments) = 2
    /\ Committed(1) = faculty_assignments[1].num_classes
    /\ ~WarnedUnscheduled(1)
    /\ Committed(2) < faculty_assignments[2].num_classes
    /\ WarnedUnscheduled(2)

\* C25: at every point of a run no request has more slots in the schedule
\* than its num_classes; a request the function has finished with (every
\* request, once it has returned) has the could-not-schedule warning naming
\* its subject and faculty exactly when it has fewer slots than its
\* num_classes, the warning giving the number missing; and no such warning
\* exists for a request not yet finished.
C25_WarningIffShort ==
    \A i \in 1..Len(faculty_assignments) :
        /\ Committed(i) <= faculty_assignments[i].num_classes
        /\ (i < a_idx \/ Returned) =>
               /\ WarnedUnscheduled(i) <=>
                      Committed(i) < faculty_assignments[i].num_classes
               /\ \A w \in warnings :
                      (w.kind = "unscheduled" /\ w.idx = i) =>
                          w.missing = faculty_assignments[i].num_classes - Committed(i)
        /\ (i >= a_idx /\ ~Returned) => ~WarnedUnscheduled(i)


\* two slots stand at the same day and start hour, for two faculties in two
\* rooms
C26_Witness ==
    /\ Len(schedule) = 2
    /\ schedule[1].day = schedule[2].day
    /\ StartHour(schedule[1]) = StartHour(schedule[2])
    /\ schedule[1].faculty_id # schedule[2].faculty_id
    /\ schedule[1].room # schedule[2].room

\* the schedule only grows at its end
C26_AppendOnly ==
    /\ Len(schedule') >= Len(schedule)
    /\ SubSeq(schedule', 1, Len(schedule)) = schedule

\* C26: at every point of a run of auto_assign_timeslots no two slots of
\* the schedule built so far have the same day, start hour and faculty id,
\* and no two have the same day, start hour and room; and every step leaves
\* the slots already in the schedule as they are, in their places.
C26_KeysDistinct ==
    /\ [](\A i, j \in 1..Len(schedule) :
            (i < j /\ schedule[i].day = schedule[j].day
                   /\ StartHour(schedule[i]) = StartHour(schedule[j])) =>
                /\ schedule[i].faculty_id # schedule[j].faculty_id
                /\ schedule[i].room # schedule[j].room)
    /\ [][C26_AppendOnly]_vars

=============================================================================
